---- MODULE Spec2Model ----
(***************************************************************************)
(* Model of the stparts.ru scraping pipeline of the parser application:    *)
(* parser/stparts_pipeline.py (run_stparts_pipeline and its per-article    *)
(* task), parser/http.py (ProxyPool) and the ranking of the collected      *)
(* offers.                                                                 *)
(*                                                                         *)
(* One run of run_stparts_pipeline is modelled.  The event loop is         *)
(* cooperative: a task runs until an await that suspends it, and the only  *)
(* awaits that suspend are those of the proxy directory, of fetch_html, of *)
(* gather, of a session's close and of a semaphore without a free slot.    *)
(* 'async with lock' never suspends: the lock is held only between two     *)
(* statements without an await, so it is free whenever a task reaches it.  *)
(* One action of the model is one such uninterrupted run of a task; the    *)
(* actions of different tasks interleave freely.  The reporter is          *)
(* caller-supplied code and may raise; the caller may cancel the run while *)
(* it is suspended.                                                        *)
(***************************************************************************)
EXTENDS Integers, Sequences, FiniteSets, TLC

(* ------------------------------ bounds -------------------------------- *)

\* most articles in one run
MaxArticles == 3

\* most proxies returned by the proxy directory
MaxProxies == 2

\* largest concurrency_limit explored
MaxLimit == 2

\* most calls of the reporter that raise in one run
MaxReporterFailures == 1

\* longest list of arbitrary offers that is ranked
MaxOffers == 2

\* most offers of one article above the cap in a ranked list
MaxExtra == 2

\* largest attempt budget (max_retries) a session is given
MaxBudget == 4

(* ------------------------- program constants -------------------------- *)

\* per-article cap of the result, list(group)[:10]
TopN == 10

\* sort key of a missing delivery, o.delivery or 999
DeliverySentinel == 999

\* ProxySession.max_retries as __init__ sets it
max_retries == 3

\* ProxySession.base_delay_sec, in milliseconds
base_delay_ms == 1000

\* ProxySession.max_delay_sec, in milliseconds
max_delay_ms == 60000

\* the max_delay_sec a caller sets on a session to see the cap at the third
\* attempt, in milliseconds
low_max_delay_ms == 3000

\* random.uniform(0, 1) yields less than one second, in milliseconds
jitter_ms == 1000

(* ------------------------------ values -------------------------------- *)

\* Optional values: None is the empty tuple, a present value v is <<v>>.
None == <<>>

Some(v) == <<v>>

\* article codes, in the order Python compares the strings
CodeList == <<"A1", "A2">>

Codes == {CodeList[k] : k \in 1..Len(CodeList)}

CodeOrd(c) == CHOOSE k \in 1..Len(CodeList) : CodeList[k] = c

\* The proxy directory holds up to MaxProxies proxies; proxy k stands for its
\* address:port key.  The lists explored: the first n proxies, and MaxProxies
\* entries that all have the address and port of proxy 1.
ProxyLists ==
    {[j \in 1..n |-> j] : n \in 0..MaxProxies} \cup {[j \in 1..MaxProxies |-> 1]}

NoSession == 0

NoDetail == "-"

ValueError == "ValueError"

\* exceptions a fetch can end with (httpx.RequestError, httpx.HTTPStatusError)
FetchErrors == {"RequestError"}

\* exception parsing can end with (int(float(...)) of an overlong number)
ParseError == "OverflowError"

RECURSIVE SeqsUpTo(_, _)
SeqsUpTo(S, n) ==
    IF n = 0 THEN {<<>>}
    ELSE LET shorter == SeqsUpTo(S, n - 1)
         IN  shorter \cup {Append(s, x) : s \in {t \in shorter : Len(t) = n - 1}, x \in S}

Range(s) == {s[k] : k \in 1..Len(s)}

Min(x, y) == IF x <= y THEN x ELSE y

Max(x, y) == IF x >= y THEN x ELSE y

\* The input lists explored: up to MaxArticles codes, duplicates included; the
\* first code is CodeList[1], which loses nothing, the tasks finishing in any order.
ArticleLists == {s \in SeqsUpTo(Codes, MaxArticles) : s = <<>> \/ s[1] = CodeList[1]}

\* the row lists of the pages the marketplace serves
PageRows ==
    { << [price |-> Some(5), quantity |-> Some(1), delivery |-> Some(2), provider |-> "w1"],
         [price |-> None,    quantity |-> Some(3), delivery |-> None,    provider |-> "w2"] >> }

\* the rows of a page that carries the 'show all options' anchor
SummaryRows ==
    << [price |-> Some(0), quantity |-> None, delivery |-> Some(0), provider |-> "w3"] >>

\* A URL, as far as requested_article reads it: /search?pcode=<code> ("query"),
\* /search/<brand>/<code> ("path"), or any other shape ("other").
SearchUrl(article) == [kind |-> "query", code |-> article]

PathUrl(article) == [kind |-> "path", code |-> article]

OtherUrl == [kind |-> "other", code |-> NoDetail]

\* the href of the 'show all options' anchor of a page without one
NoLink == [kind |-> "nolink", code |-> NoDetail]

\* A fetched page: the href of its 'show all options' anchor, its rows, and
\* whether a row makes the parser raise.
Pages ==
    { [link |-> NoLink,               rows |-> <<>>, bad |-> TRUE],
      [link |-> OtherUrl,             rows |-> SummaryRows, bad |-> FALSE],
      [link |-> PathUrl(CodeList[1]), rows |-> SummaryRows, bad |-> FALSE] }
    \cup { [link |-> NoLink, rows |-> rs, bad |-> FALSE] : rs \in PageRows }

(* ------------------- floating point of the progress ------------------- *)
(* completed_count / total_articles is Python's true division: the         *)
(* quotient rounded to the nearest IEEE-754 double (ties to even); the     *)
(* product with 100 is rounded the same way and int() truncates it.  The   *)
(* 53 mantissa bits of a double are kept as six limbs, most significant    *)
(* first: five of 10 bits and a last one of 3 bits.  A quotient q in       *)
(* [2^-(lz+1), 2^-lz) has the mantissa q * 2^(53+lz).                      *)

LimbBase == 1024

LastLimbBase == 8

NumLimbs == 6

Radix(j) == IF j = NumLimbs THEN LastLimbBase ELSE LimbBase

RECURSIVE Pow2(_)
Pow2(n) == IF n = 0 THEN 1 ELSE 2 * Pow2(n - 1)

\* number of zero bits of the binary fraction r/n before its first 1 (0 < r < n)
RECURSIVE LeadingZeros(_, _)
LeadingZeros(r, n) == IF 2 * r >= n THEN 0 ELSE 1 + LeadingZeros(2 * r, n)

\* the next 10 bits of the binary fraction r/n, and the remainder left
Chunk(r, n) == [digit |-> (r * LimbBase) \div n, rem |-> (r * LimbBase) % n]

AllMaxFrom(m, j) == \A i \in j..NumLimbs : m[i] = Radix(i) - 1

\* mantissa + 1, limb by limb; all limbs zero when the carry runs out of the top
IncLimbs(m) ==
    [j \in 1..NumLimbs |->
        IF AllMaxFrom(m, j) THEN 0
        ELSE IF AllMaxFrom(m, j + 1) THEN m[j] + 1
        ELSE m[j]]

\* the mantissa of 2^-(lz+1)
PowerOfTwo == [j \in 1..NumLimbs |-> IF j = 1 THEN LimbBase \div 2 ELSE 0]

\* k / n as a double, 0 < k <= n: 60 bits of the quotient, rounded to 53
FloatDiv(k, n) ==
    IF k = n THEN [m |-> PowerOfTwo, lz |-> 0 - 1]
    ELSE LET lz     == LeadingZeros(k, n)
             c1     == Chunk(k * Pow2(lz), n)
             c2     == Chunk(c1.rem, n)
             c3     == Chunk(c2.rem, n)
             c4     == Chunk(c3.rem, n)
             c5     == Chunk(c4.rem, n)
             c6     == Chunk(c5.rem, n)
             top3   == c6.digit \div 128
             guard  == (c6.digit \div 64) % 2
             sticky == ((c6.digit % 64) # 0) \/ (c6.rem # 0)
             raw    == <<c1.digit, c2.digit, c3.digit, c4.digit, c5.digit, top3>>
             up     == guard = 1 /\ (sticky \/ (top3 % 2) = 1)
         IN  IF ~up THEN [m |-> raw, lz |-> lz]
             ELSE IF AllMaxFrom(raw, 1) THEN [m |-> PowerOfTwo, lz |-> lz - 1]
             ELSE [m |-> IncLimbs(raw), lz |-> lz]

\* f * 100 as a double.  The exact product is top * 2^53 + (53 low bits); it has
\* 59 or 60 bits, so 6 or 7 low bits are rounded away.  Only the part of the
\* rounded product above 2^53 is returned: the bits below it are below the
\* integer part of the value.
FloatMul100(f) ==
    LET p6    == 100 * f.m[6]
        p5    == 100 * f.m[5] + (p6 \div LastLimbBase)
        p4    == 100 * f.m[4] + (p5 \div LimbBase)
        p3    == 100 * f.m[3] + (p4 \div LimbBase)
        p2    == 100 * f.m[2] + (p3 \div LimbBase)
        p1    == 100 * f.m[1] + (p2 \div LimbBase)
        top   == p1 \div LimbBase
        drop  == IF top >= 64 THEN 7 ELSE 6
        cut   == Pow2(drop - 3)
        low5  == p5 % LimbBase
        lost  == (low5 % cut) * LastLimbBase + (p6 % LastLimbBase)
        kept5 == low5 \div cut
        half  == Pow2(drop - 1)
        up    == lost > half \/ (lost = half /\ (kept5 % 2) = 1)
        ones  == /\ kept5 = (LimbBase \div cut) - 1
                 /\ \A x \in {p1, p2, p3, p4} : (x % LimbBase) = LimbBase - 1
    IN  [top |-> IF up /\ ones THEN top + 1 ELSE top, lz |-> f.lz]

\* int(f) of the product: its part above 2^53, shifted by the exponent
FloatToInt(f) == IF f.lz >= 0 THEN f.top \div Pow2(f.lz) ELSE f.top * Pow2(0 - f.lz)

\* a percentage of the articles still to complete (C27 fails with it)
ProgressPctOfRest(completed, total) == (100 * (total - completed + 1)) \div total

\* progress_pct = int((completed_count / total_articles) * 100)
ProgressPct(completed, total) == FloatToInt(FloatMul100(FloatDiv(completed, total)))

(* ------------------------------ parsing ------------------------------- *)

\* requested_article: the article code of a URL, ValueError for an unknown shape
RequestedArticle(url) == IF url.kind \in {"query", "path"} THEN url.code ELSE ValueError

\* parse_stparts on a page that does not make it raise: no offers when the URL
\* has no recognised shape, else one offer per row carrying the URL's article
ParseStparts(page, source_url) ==
    LET article == RequestedArticle(source_url)
    IN  IF article = ValueError THEN <<>>
        ELSE [j \in 1..Len(page.rows) |->
                 [a        |-> article,
                  price    |-> page.rows[j].price,
                  quantity |-> page.rows[j].quantity,
                  delivery |-> page.rows[j].delivery,
                  provider |-> page.rows[j].provider]]

(* ------------------------------ ranking ------------------------------- *)

\* o.quantity or 0
QuantityOrZero(o) == IF o.quantity = None THEN 0 ELSE o.quantity[1]

\* o.delivery or 999: None and 0 are both falsy
DeliveryOrSentinel(o) ==
    IF o.delivery = None \/ o.delivery[1] = 0 THEN DeliverySentinel ELSE o.delivery[1]

\* key=lambda o: (o.a, o.price, -(o.quantity or 0), o.delivery or 999)
SortKey(o) == <<CodeOrd(o.a), o.price[1], 0 - QuantityOrZero(o), DeliveryOrSentinel(o)>>

\* tuple comparison k1 < k2
KeyLess(k1, k2) ==
    \E j \in 1..4 : k1[j] < k2[j] /\ \A i \in 1..(j - 1) : k1[i] = k2[i]

\* list.sort(key=...): a stable sort, an offer goes behind the offers whose key
\* is not greater than its own
RECURSIVE SortOffers(_)
SortOffers(offers) ==
    IF offers = <<>> THEN <<>>
    ELSE LET n      == Len(offers)
             o      == offers[n]
             front  == SortOffers(SubSeq(offers, 1, n - 1))
             before == SelectSeq(front, LAMBDA x : ~KeyLess(SortKey(o), SortKey(x)))
             after  == SelectSeq(front, LAMBDA x : KeyLess(SortKey(o), SortKey(x)))
         IN  before \o <<o>> \o after

\* a cap that keeps the last 10 offers of each article's group (C12 fails with it)
RECURSIVE CapGroupsLast(_)
CapGroupsLast(sorted) ==
    IF sorted = <<>> THEN <<>>
    ELSE LET o      == Head(sorted)
             behind == Cardinality({j \in 2..Len(sorted) : sorted[j].a = o.a})
             rest   == CapGroupsLast(Tail(sorted))
         IN  IF behind < TopN THEN <<o>> \o rest ELSE rest

\* itertools.groupby on the sorted list and list(group)[:10]: an offer is kept
\* when fewer than 10 offers of its article stand before it
RECURSIVE CapGroups(_)
CapGroups(sorted) ==
    IF sorted = <<>> THEN <<>>
    ELSE LET n     == Len(sorted)
             o     == sorted[n]
             ahead == Cardinality({j \in 1..(n - 1) : sorted[j].a = o.a})
             front == CapGroups(SubSeq(sorted, 1, n - 1))
         IN  IF ahead < TopN THEN Append(front, o) ELSE front

\* a ranking that keeps the offers whose price is truthy (C11 fails with it)
RankOffersTruthy(offers) ==
    CapGroups(SortOffers(SelectSeq(offers, LAMBDA o : o.price # None /\ o.price[1] # 0)))

\* the FILTERING phase: drop unpriced offers, sort, cap each article's group
RankOffers(offers) ==
    CapGroups(SortOffers(SelectSeq(offers, LAMBDA o : o.price # None)))

(* ------------------------------- state -------------------------------- *)

VARIABLES
    articles,           \* the input list of article codes
    concurrency_limit,  \* the semaphore's initial value
    phase,              \* where run_stparts_pipeline stands
    error,              \* the exception the run ended with
    raised_at,          \* the phase the run stood in when the exception escaped
    cancelled,          \* the caller has cancelled the run awaiting its tasks
    proxies,            \* ProxyPool._proxies, as address:port keys
    proxy_cycle,        \* position of ProxyPool._proxy_cycle in proxies
    sessions,           \* the keys of ProxyPool._sessions, in insertion order
    to_close,           \* the sessions close_all has still to close
    closed,             \* the keys of the sessions whose client is closed
    close_calls,        \* number of calls of ProxyPool.close_all
    semaphore,          \* the semaphore's value
    lock,               \* the task holding the lock, 0 when it is free
    completed_count,
    all_offers,
    pc,                 \* per task: its position in task()
    session,            \* per task: the key of its session, NoSession for None
    parsable_url,       \* per task: the URL its page is parsed with
    task_exc,           \* per task: the exception propagating out of it
    steps,              \* the report_step calls the reporter received
    percentages,        \* the report_percentage calls the reporter received
    reporter_failures,  \* number of reporter calls that raised
    final_results,      \* the returned list
    increments,         \* per task: how often it incremented completed_count
    fetch_calls,        \* per task: its calls of session.fetch_html
    late_fetch,         \* a fetch_html was called after close_all had started
    parsed,             \* per task: the offers its page was parsed to
    caught,             \* per task: the exception 'except Exception' caught
    html,               \* per task: the rows of the page its last fetch_html returned
    fetch_html,         \* the state of one call of ProxySession.fetch_html
    parse_call,         \* the state of one call of parse_stparts
    pivot_call          \* the state of one call of pivot_offers_for_export

vars == <<articles, concurrency_limit, phase, error, raised_at, cancelled, proxies,
          proxy_cycle, sessions, to_close, closed, close_calls, semaphore, lock,
          completed_count, all_offers, pc, session, parsable_url, task_exc, steps,
          percentages, reporter_failures, final_results, increments, fetch_calls,
          late_fetch, parsed, caught, html, fetch_html, parse_call, pivot_call>>

pool_vars == <<proxies, proxy_cycle, sessions>>

close_vars == <<to_close, closed, close_calls>>

run_vars == <<phase, error, raised_at>>

report_vars == <<steps, reporter_failures>>

count_vars == <<completed_count, increments>>

fetch_vars == <<fetch_calls, late_fetch>>

input_vars == <<articles, concurrency_limit>>

\* the calls of parse_stparts and pivot_offers_for_export studied on their own
other_calls == <<parse_call, pivot_call>>

Tasks == 1..Len(articles)

total_articles == Len(articles)

NoError == "none"

ReporterError == "ReporterError"

CancelledError == "CancelledError"

Step(step, status, article, err) ==
    [step |-> step, status |-> status, article |-> article, error |-> err]

FetchingInProgress == Step("FETCHING", "IN_PROGRESS", NoDetail, NoDetail)

FetchingFailure(article, err) == Step("FETCHING", "FAILURE", article, err)

FilteringInProgress == Step("FILTERING", "IN_PROGRESS", NoDetail, NoDetail)

FilteringSuccess == Step("FILTERING", "SUCCESS", NoDetail, NoDetail)

\* html before the first fetch_html has returned
NoPage == <<>>

\* no call of fetch_html is under way
NoCall == [pc |-> "idle"]

Init ==
    /\ articles \in ArticleLists
    /\ concurrency_limit \in 1..MaxLimit
    /\ phase = "init"
    /\ error = NoError
    /\ raised_at = NoDetail
    /\ cancelled = FALSE
    /\ proxies = <<>>
    /\ proxy_cycle = 1
    /\ sessions = <<>>
    /\ to_close = <<>>
    /\ closed = {}
    /\ close_calls = 0
    /\ semaphore = concurrency_limit
    /\ lock = 0
    /\ completed_count = 0
    /\ all_offers = <<>>
    /\ pc = [i \in Tasks |-> "absent"]
    /\ session = [i \in Tasks |-> NoSession]
    /\ parsable_url = [i \in Tasks |-> SearchUrl(articles[i])]
    /\ task_exc = [i \in Tasks |-> NoError]
    /\ steps = <<>>
    /\ percentages = <<>>
    /\ reporter_failures = 0
    /\ final_results = <<>>
    /\ increments = [i \in Tasks |-> 0]
    /\ fetch_calls = [i \in Tasks |-> 0]
    /\ late_fetch = FALSE
    /\ parsed = [i \in Tasks |-> <<>>]
    /\ caught = [i \in Tasks |-> NoError]
    /\ html = [i \in Tasks |-> NoPage]
    /\ fetch_html = NoCall
    /\ parse_call = NoCall
    /\ pivot_call = NoCall

(* ------------------------------ ProxyPool ----------------------------- *)

\* a pool that hands out a session of its own when it has no proxies (C8 fails
\* with it)
PoolAcquireDirect ==
    LET proxy_key == IF proxies = <<>> THEN 1 ELSE proxies[proxy_cycle]
    IN  [session  |-> proxy_key,
         cycle    |-> IF proxies = <<>> THEN proxy_cycle
                      ELSE (proxy_cycle % Len(proxies)) + 1,
         sessions |-> IF proxy_key \in Range(sessions) THEN sessions
                      ELSE Append(sessions, proxy_key)]

\* a pool that creates a session at every acquire (C26 fails with it)
PoolAcquireFresh ==
    IF proxies = <<>>
    THEN [session |-> NoSession, cycle |-> proxy_cycle, sessions |-> sessions]
    ELSE LET proxy_key == proxies[proxy_cycle]
         IN  [session  |-> proxy_key,
              cycle    |-> (proxy_cycle % Len(proxies)) + 1,
              sessions |-> Append(sessions, proxy_key)]

\* a pool whose cycle never advances (C19 fails with it)
PoolAcquireStuck ==
    IF proxies = <<>>
    THEN [session |-> NoSession, cycle |-> proxy_cycle, sessions |-> sessions]
    ELSE LET proxy_key == proxies[proxy_cycle]
         IN  [session  |-> proxy_key,
              cycle    |-> proxy_cycle,
              sessions |-> IF proxy_key \in Range(sessions) THEN sessions
                           ELSE Append(sessions, proxy_key)]

\* ProxyPool.acquire: None without proxies, else the session of the next proxy
\* of the cycle, created and stored when its key has none yet
PoolAcquire ==
    IF proxies = <<>>
    THEN [session |-> NoSession, cycle |-> proxy_cycle, sessions |-> sessions]
    ELSE LET proxy_key == proxies[proxy_cycle]
         IN  [session  |-> proxy_key,
              cycle    |-> (proxy_cycle % Len(proxies)) + 1,
              sessions |-> IF proxy_key \in Range(sessions) THEN sessions
                           ELSE Append(sessions, proxy_key)]

(* ---------------------------- the reporter ---------------------------- *)

\* the outcomes of one call of the reporter: it returns (TRUE) or raises (FALSE)
ReporterOutcomes == IF reporter_failures < MaxReporterFailures THEN BOOLEAN ELSE {TRUE}

\* how many of the calls with the outcomes oks raised
Failures(oks) == Cardinality({j \in DOMAIN oks : ~oks[j]})

\* a reporter that records every step twice (C10 fails with it)
ReportStepTwice(record, ok) ==
    /\ steps' = IF ok THEN steps \o <<record, record>> ELSE steps
    /\ reporter_failures' = reporter_failures + Failures(<<ok>>)

\* reporter.report_step(...): the reporter records the step, or raises
ReportStep(record, ok) ==
    /\ steps' = IF ok THEN Append(steps, record) ELSE steps
    /\ reporter_failures' = reporter_failures + Failures(<<ok>>)

\* run_stparts_pipeline ends with the exception exc
Raise(exc) ==
    /\ error' = exc
    /\ raised_at' = phase
    /\ phase' = "raised"

(* ------------------------ run_stparts_pipeline ------------------------ *)

\* pool = await ProxyPool.from_db(); the semaphore, the counter and the lock are
\* set up; FETCHING/IN_PROGRESS is reported; gather schedules one task per article
StartRun ==
    /\ phase = "init"
    /\ \E ps \in ProxyLists, ok \in ReporterOutcomes :
        /\ proxies' = ps
        /\ ReportStep(FetchingInProgress, ok)
        /\ IF ok
           THEN /\ phase' = "gather"
                /\ pc' = [i \in Tasks |-> "new"]
                /\ UNCHANGED <<error, raised_at>>
           ELSE /\ Raise(ReporterError)
                /\ UNCHANGED pc
    /\ UNCHANGED <<input_vars, other_calls, fetch_html,
                   html, cancelled, proxy_cycle, sessions, close_vars, semaphore,
                   lock, count_vars, all_offers, session, parsable_url, task_exc,
                   percentages, final_results, fetch_vars, parsed, caught>>

\* a semaphore that admits every task (C2 fails with it)
SemaphoreUnbounded == TRUE

\* async with semaphore: a task enters when the value is positive
SemaphoreFree == semaphore > 0

\* async with lock: a task enters when no task holds the lock
LockFree == lock = 0

\* session.fetch_html is called by task i
CallFetch(i) ==
    /\ fetch_calls' = [fetch_calls EXCEPT ![i] = @ + 1]
    /\ late_fetch' = (late_fetch \/ close_calls > 0)

\* a task that ends without counting itself (C3 fails with it)
CountSkipped(i) ==
    /\ lock = 0
    /\ UNCHANGED <<completed_count, increments>>

\* async with lock: completed_count += 1
CountCompleted(i) ==
    /\ LockFree
    /\ completed_count' = completed_count + 1
    /\ increments' = [increments EXCEPT ![i] = @ + 1]

\* The finally block of task i, left with the exception exc (NoError for none):
\* pool.release does nothing, the task is counted, the progress is computed and
\* reported under the lock, and the task leaves the semaphore.  ok says whether
\* report_percentage returns; its exception replaces exc.  The URL is a local
\* of the fetch, gone when the task ends.
Finally(i, exc, ok) ==
    /\ CountCompleted(i)
    /\ percentages' =
          IF ok THEN Append(percentages, ProgressPct(completed_count', total_articles))
          ELSE percentages
    /\ task_exc' = [task_exc EXCEPT ![i] = IF ok THEN exc ELSE ReporterError]
    /\ pc' = [pc EXCEPT ![i] = "done"]
    /\ semaphore' = semaphore + 1
    /\ parsable_url' = [parsable_url EXCEPT ![i] = SearchUrl(articles[i])]

\* task(article) up to its first suspension.  The tasks start in the order
\* gather was given them, and the semaphore wakes its waiters in that order.
\* The task enters the semaphore and acquires a session.  Without one it
\* counts itself completed and returns; with one it calls the first fetch_html
\* of _fetch_and_parse_article.
TaskEnter(i) ==
    /\ pc[i] = "new"
    /\ \A j \in 1..(i - 1) : pc[j] # "new"
    /\ SemaphoreFree
    /\ LET got == PoolAcquire
       IN  /\ proxy_cycle' = got.cycle
           /\ sessions' = got.sessions
           /\ session' = [session EXCEPT ![i] = got.session]
           /\ IF got.session = NoSession
              THEN /\ CountCompleted(i)
                   /\ pc' = [pc EXCEPT ![i] = "done"]
                   /\ UNCHANGED <<semaphore, fetch_vars>>
              ELSE /\ semaphore' = semaphore - 1
                   /\ pc' = [pc EXCEPT ![i] = "fetch1"]
                   /\ CallFetch(i)
                   /\ UNCHANGED count_vars
    /\ UNCHANGED <<input_vars, other_calls, fetch_html, html,
                   run_vars, cancelled, proxies, close_vars, lock,
                   all_offers, parsable_url, task_exc, report_vars, percentages,
                   final_results, parsed, caught>>

\* a task without the except clause: the exception e leaves it through the
\* finally block (C1 fails with it)
TaskFailsUncaught(i, e) ==
    /\ caught' = caught
    /\ UNCHANGED <<steps, reporter_failures>>
    /\ CountCompleted(i)
    /\ percentages' = Append(percentages, ProgressPct(completed_count', total_articles))
    /\ task_exc' = [task_exc EXCEPT ![i] = e]
    /\ pc' = [pc EXCEPT ![i] = "done"]
    /\ semaphore' = semaphore + 1
    /\ parsable_url' = [parsable_url EXCEPT ![i] = SearchUrl(articles[i])]

\* except Exception as e: the failure is reported with the article and str(e);
\* then the finally block.  An exception of the reporter leaves the task.
TaskFails(i, e) ==
    \E ok1 \in ReporterOutcomes, ok2 \in ReporterOutcomes :
        /\ reporter_failures + Failures(<<ok1, ok2>>) <= MaxReporterFailures
        /\ steps' = IF ok1 THEN Append(steps, FetchingFailure(articles[i], e)) ELSE steps
        /\ reporter_failures' = reporter_failures + Failures(<<ok1, ok2>>)
        /\ caught' = [caught EXCEPT ![i] = e]
        /\ Finally(i, IF ok1 THEN NoError ELSE ReporterError, ok2)

\* A fetch_html of task i returns page.  The first page's 'show all options'
\* link is followed by a second fetch.  Else the page is parsed with the URL it
\* was fetched from, the offers are appended to all_offers and the finally
\* block runs; a page the parser raises on fails the task.
FetchReturn(i) ==
    /\ pc[i] \in {"fetch1", "fetch2"}
    /\ \E page \in Pages :
        /\ html' = [html EXCEPT ![i] = page.rows]
        /\ IF pc[i] = "fetch1" /\ page.link # NoLink
           THEN /\ parsable_url' = [parsable_url EXCEPT ![i] = page.link]
                /\ pc' = [pc EXCEPT ![i] = "fetch2"]
                /\ CallFetch(i)
                /\ UNCHANGED <<all_offers, parsed, caught, task_exc, report_vars,
                               percentages, semaphore, count_vars>>
           ELSE IF page.bad
           THEN /\ TaskFails(i, ParseError)
                /\ UNCHANGED <<all_offers, parsed, fetch_vars>>
           ELSE \E ok \in ReporterOutcomes :
                   LET offers == ParseStparts(page, parsable_url[i])
                   IN  /\ all_offers' = all_offers \o offers
                       /\ parsed' = [parsed EXCEPT ![i] = offers]
                       /\ Finally(i, NoError, ok)
                       /\ reporter_failures' = reporter_failures + Failures(<<ok>>)
                       /\ UNCHANGED <<fetch_vars, steps, caught>>
    /\ UNCHANGED <<input_vars, other_calls, fetch_html, run_vars, cancelled, pool_vars, close_vars,
                   lock, session, final_results>>

\* a task that keeps the offers of the rows of its first page when its
\* redirect fetch raises (C28 fails with it)
FetchRaiseKeepsRows(i) ==
    /\ pc[i] \in {"fetch1", "fetch2"}
    /\ \E e \in FetchErrors : TaskFails(i, e)
    /\ LET offers == ParseStparts([rows |-> html[i]], SearchUrl(articles[i]))
       IN  /\ all_offers' = all_offers \o offers
           /\ parsed' = [parsed EXCEPT ![i] = offers]
    /\ UNCHANGED <<input_vars, other_calls, fetch_html, html,
                   run_vars, cancelled, pool_vars, close_vars, lock,
                   session, final_results, fetch_vars>>

\* A fetch_html of task i raises.
FetchRaise(i) ==
    /\ pc[i] \in {"fetch1", "fetch2"}
    /\ \E e \in FetchErrors : TaskFails(i, e)
    /\ UNCHANGED <<input_vars, other_calls, fetch_html, html,
                   run_vars, cancelled, pool_vars, close_vars, lock,
                   all_offers, session, final_results, fetch_vars, parsed>>

\* a gather that returns with its first finished task (C6 fails with it)
AnyTaskDone == \E i \in Tasks : pc[i] = "done" /\ task_exc[i] = NoError

\* every task has finished without an exception
AllTasksDone == \A i \in Tasks : pc[i] = "done" /\ task_exc[i] = NoError

\* await asyncio.gather(...) returns once every task has finished without an
\* exception; await pool.close_all() is called
GatherDone ==
    /\ phase = "gather"
    /\ AllTasksDone
    /\ phase' = "closing"
    /\ close_calls' = close_calls + 1
    /\ to_close' = sessions
    /\ UNCHANGED <<input_vars, other_calls, fetch_html,
                   html, error, raised_at, cancelled, pool_vars, closed, semaphore,
                   lock, count_vars, all_offers, pc, session, parsable_url, task_exc,
                   report_vars, percentages, final_results, fetch_vars, parsed, caught>>

\* the tasks awaiting a fetch_html, and those that have not entered the semaphore
Suspended == {i \in Tasks : pc[i] \in {"fetch1", "fetch2"}}

Unfinished == {i \in Tasks : pc[i] # "done"}

\* Every unfinished task is cancelled.  CancelledError reaches the tasks where
\* they are suspended, in the order of the task list: a task that has not
\* entered the semaphore ends there; in a task awaiting fetch_html it passes
\* 'except Exception' and the finally block runs.  bad are the tasks whose
\* report_percentage raises.
CancelTasks(bad) ==
    LET order  == SelectSeq([i \in Tasks |-> i], LAMBDA i : i \in Suspended)
        told   == SelectSeq([j \in 1..Len(order) |-> j], LAMBDA j : order[j] \notin bad)
    IN  /\ completed_count' = completed_count + Len(order)
        /\ increments' = [i \in Tasks |-> increments[i] + IF i \in Suspended THEN 1 ELSE 0]
        /\ percentages' = percentages \o
              [t \in 1..Len(told) |-> ProgressPct(completed_count + told[t], total_articles)]
        /\ reporter_failures' = reporter_failures + Cardinality(bad)
        /\ task_exc' = [i \in Tasks |->
                          IF i \in bad THEN ReporterError
                          ELSE IF i \in Unfinished THEN CancelledError
                          ELSE task_exc[i]]
        /\ pc' = [i \in Tasks |-> "done"]
        /\ semaphore' = semaphore + Len(order)
        /\ parsable_url' = [i \in Tasks |-> SearchUrl(articles[i])]

\* the sets of tasks whose report may raise while the tasks are cancelled
BadReports == {bad \in SUBSET Suspended :
                  reporter_failures + Cardinality(bad) <= MaxReporterFailures}

\* gather without return_exceptions: the exception of a finished task is raised
\* in run_stparts_pipeline at once; asyncio.run, which drives the run, then
\* cancels the tasks that are still running
GatherRaise ==
    /\ phase = "gather"
    /\ \E i \in Tasks :
        /\ pc[i] = "done"
        /\ task_exc[i] # NoError
        /\ Raise(task_exc[i])
    /\ \E bad \in BadReports : CancelTasks(bad)
    /\ UNCHANGED <<input_vars, other_calls, fetch_html, html,
                   cancelled, pool_vars, close_vars, lock, all_offers,
                   session, steps, final_results, fetch_vars, parsed, caught>>

\* close_all: for session in self._sessions.values(): await session.close()
CloseSession ==
    /\ phase = "closing"
    /\ to_close # <<>>
    /\ closed' = closed \cup {Head(to_close)}
    /\ to_close' = Tail(to_close)
    /\ UNCHANGED <<input_vars, other_calls, fetch_html,
                   html, run_vars, cancelled, pool_vars, close_calls, semaphore,
                   lock, count_vars, all_offers, pc, session, parsable_url, task_exc,
                   report_vars, percentages, final_results, fetch_vars, parsed, caught>>

\* a filtering phase that reports its end alone (C9 fails with it)
FilteringUnannounced ==
    /\ phase = "closing"
    /\ to_close = <<>>
    /\ steps' = Append(steps, FilteringSuccess)
    /\ final_results' = RankOffers(all_offers)
    /\ phase' = "returned"
    /\ UNCHANGED <<input_vars, other_calls, fetch_html, html,
                   error, raised_at, cancelled, pool_vars, close_vars,
                   semaphore, lock, count_vars, all_offers, pc, session, parsable_url,
                   task_exc, reporter_failures, percentages, fetch_vars, parsed, caught>>

\* close_all has returned: FILTERING/IN_PROGRESS is reported, the offers are
\* ranked, FILTERING/SUCCESS is reported and the result is returned
Filtering ==
    /\ phase = "closing"
    /\ to_close = <<>>
    /\ \E ok1 \in ReporterOutcomes, ok2 \in ReporterOutcomes :
        /\ ok1 \/ ok2
        /\ reporter_failures' = reporter_failures + Failures(<<ok1, ok2>>)
        /\ IF ok1 /\ ok2
           THEN /\ steps' = steps \o <<FilteringInProgress, FilteringSuccess>>
                /\ final_results' = RankOffers(all_offers)
                /\ phase' = "returned"
                /\ UNCHANGED <<error, raised_at>>
           ELSE /\ steps' = IF ok1 THEN Append(steps, FilteringInProgress) ELSE steps
                /\ Raise(ReporterError)
                /\ UNCHANGED final_results
    /\ UNCHANGED <<input_vars, other_calls, fetch_html, html,
                   cancelled, pool_vars, close_vars, semaphore, lock,
                   count_vars, all_offers, pc, session, parsable_url, task_exc,
                   percentages, fetch_vars, parsed, caught>>

\* The caller cancels the run while it awaits gather: gather cancels the
\* unfinished tasks and raises the exception of the first of them to end, or
\* CancelledError when all had finished.
CancelGather ==
    /\ phase = "gather"
    /\ \A i \in Tasks : pc[i] = "done" => task_exc[i] = NoError
    /\ \E bad \in BadReports :
        /\ CancelTasks(bad)
        /\ Raise(IF \E i \in bad : \A j \in Unfinished : i <= j
                 THEN ReporterError ELSE CancelledError)
    /\ cancelled' = TRUE
    /\ UNCHANGED <<input_vars, other_calls, fetch_html,
                   html, pool_vars, close_vars, lock, all_offers, session, steps,
                   final_results, fetch_vars, parsed, caught>>

\* The caller cancels the run while it awaits a session's close in close_all:
\* CancelledError is raised there.
CancelClose ==
    /\ phase = "closing"
    /\ to_close # <<>>
    /\ Raise(CancelledError)
    /\ cancelled' = TRUE
    /\ UNCHANGED <<input_vars, other_calls, fetch_html, html,
                   pool_vars, close_vars, semaphore, lock, count_vars,
                   all_offers, pc, session, parsable_url, task_exc, report_vars,
                   percentages, final_results, fetch_vars, parsed, caught>>

Next ==
    \/ StartRun
    \/ \E i \in Tasks : TaskEnter(i)
    \/ \E i \in Tasks : FetchReturn(i)
    \/ \E i \in Tasks : FetchRaise(i)
    \/ GatherDone
    \/ GatherRaise
    \/ CloseSession
    \/ Filtering
    \/ CancelGather
    \/ CancelClose

Spec == Init /\ [][Next]_vars

(* ---------------------- the ranking on its own ------------------------ *)
(* The FILTERING phase applied to collected offers of any shape: every    *)
(* list of up to MaxOffers offers, and lists with up to MaxExtra offers   *)
(* of one article above the cap.                                          *)

\* the offers (OfferRow) ranked: the fields the ranking reads, and the provider
OfferSpace ==
    [a        : Codes,
     price    : {None, Some(0), Some(5)},
     quantity : {None, Some(3)},
     delivery : {None, Some(0), Some(2)},
     provider : {"w1", "w2"}]

\* n offers of one article with the prices n, n - 1, ..., 1
Ladder(n) ==
    [j \in 1..n |->
        [a |-> CodeList[1], price |-> Some(n + 1 - j), quantity |-> Some(3),
         delivery |-> Some(2), provider |-> "w1"]]

OfferLists ==
    SeqsUpTo(OfferSpace, MaxOffers)
    \cup {Ladder(n) \o s : n \in (TopN - 1)..(TopN + MaxExtra), s \in SeqsUpTo(OfferSpace, 1)}

\* no run of the pipeline and no call of fetch_html is under way
NoRun ==
    /\ articles = <<>>
    /\ concurrency_limit = 1
    /\ error = NoError
    /\ raised_at = NoDetail
    /\ cancelled = FALSE
    /\ proxies = <<>>
    /\ proxy_cycle = 1
    /\ sessions = <<>>
    /\ to_close = <<>>
    /\ closed = {}
    /\ close_calls = 0
    /\ semaphore = 1
    /\ lock = 0
    /\ completed_count = 0
    /\ pc = <<>>
    /\ session = <<>>
    /\ parsable_url = <<>>
    /\ task_exc = <<>>
    /\ steps = <<>>
    /\ percentages = <<>>
    /\ reporter_failures = 0
    /\ increments = <<>>
    /\ fetch_calls = <<>>
    /\ late_fetch = FALSE
    /\ parsed = <<>>
    /\ caught = <<>>
    /\ html = <<>>

\* the variables the ranking leaves alone
rank_frame ==
    <<input_vars, error, raised_at, cancelled, pool_vars, close_vars, semaphore, lock,
      count_vars, all_offers, pc, session, parsable_url, task_exc, report_vars,
      percentages, fetch_vars, parsed, caught, html, fetch_html, other_calls>>

RankInit ==
    /\ NoRun
    /\ fetch_html = NoCall
    /\ parse_call = NoCall
    /\ pivot_call = NoCall
    /\ phase = "filtering"
    /\ all_offers \in OfferLists
    /\ final_results = <<>>

\* lines 112-119 of run_stparts_pipeline on all_offers
RankApply ==
    /\ phase = "filtering"
    /\ final_results' = RankOffers(all_offers)
    /\ phase' = "ranked"
    /\ UNCHANGED rank_frame

RankSpec == RankInit /\ [][RankApply]_vars

(* ----------------------- fetch_html on its own ------------------------ *)
(* One call of ProxySession.fetch_html against every sequence of          *)
(* responses.  A response is an answer with a 2xx status, an answer with  *)
(* an error status (raise_for_status raises HTTPStatusError) or a         *)
(* network error (client.get raises RequestError).  Delays are in         *)
(* milliseconds.                                                          *)

\* a fetch_html that retries a 500 as well (C15 fails with it)
RetryStatusesWide == {429, 503, 500}

\* the statuses fetch_html retries: e.response.status_code in {429, 503}
RetryStatuses == {429, 503}

\* error statuses answered, retried or not
ErrorStatuses == {429, 503, 404, 500}

\* A Retry-After header: absent (None), or present with a value that float()
\* parses to ms milliseconds or rejects.
RetryAfters ==
    {None, Some([numeric |-> FALSE, ms |-> 0]), Some([numeric |-> TRUE, ms |-> 10]),
     Some([numeric |-> TRUE, ms |-> 90000])}

OkResponse == [kind |-> "ok", status |-> 200, retry_after |-> None]

StatusResponses ==
    {[kind |-> "status", status |-> c, retry_after |-> h] :
        c \in ErrorStatuses, h \in RetryAfters}

RequestErrorResponse == [kind |-> "network", status |-> 0, retry_after |-> None]

\* values of random.uniform(0, 1), in milliseconds
Jitters == {0, jitter_ms - 1}

\* a backoff without the cap (C24 fails with it)
BackoffUncapped(attempt, jitter) == base_delay_ms * Pow2(attempt) + jitter

\* min(self.max_delay_sec, self.base_delay_sec * (2**attempt) + random.uniform(0, 1))
Backoff(attempt, jitter) ==
    Min(fetch_html.max_delay_ms, base_delay_ms * Pow2(attempt) + jitter)

\* a delay that takes the Retry-After of a 503 as well (C25 fails with it)
StatusDelayAnyStatus(resp, attempt, jitter) ==
    IF /\ resp.retry_after # None
       /\ resp.retry_after[1].numeric
    THEN Max(Backoff(attempt, jitter), resp.retry_after[1].ms)
    ELSE Backoff(attempt, jitter)

\* the delay slept after the error status of resp: for a 429 with a numeric
\* Retry-After the larger of the backoff and the header's value
StatusDelay(resp, attempt, jitter) ==
    IF /\ resp.status = 429
       /\ resp.retry_after # None
       /\ resp.retry_after[1].numeric
    THEN Max(Backoff(attempt, jitter), resp.retry_after[1].ms)
    ELSE Backoff(attempt, jitter)

\* an exception fetch_html ends with: its kind and the response that caused it
\* (0 for the error raised after the loop)
FetchError(kind, of) == [kind |-> kind, of |-> of]

FetchInit ==
    /\ NoRun
    /\ parse_call = NoCall
    /\ pivot_call = NoCall
    /\ phase = "init"
    /\ all_offers = <<>>
    /\ final_results = <<>>
    /\ \E budget \in 1..MaxBudget, cap \in {low_max_delay_ms, max_delay_ms} :
          fetch_html = [pc |-> "get", max_retries |-> budget, max_delay_ms |-> cap,
                        attempt |-> 0, gets |-> 0,
                        sleeps |-> <<>>, responses |-> <<>>, body |-> 0,
                        error |-> FetchError(NoError, 0)]

\* the variables fetch_html leaves alone
fetch_frame ==
    <<input_vars, run_vars, cancelled, pool_vars, close_vars, semaphore, lock,
      count_vars, all_offers, pc, session, parsable_url, task_exc, report_vars,
      percentages, final_results, fetch_vars, parsed, caught, html, other_calls>>

\* a fetch_html that sleeps before it returns the body (C16 fails with it)
GetReturnsAfterSleep ==
    /\ fetch_html.pc = "get"
    /\ fetch_html' = [fetch_html EXCEPT
                         !.pc = "returned",
                         !.gets = @ + 1,
                         !.responses = Append(@, OkResponse),
                         !.sleeps = Append(@, Backoff(fetch_html.attempt, 0)),
                         !.body = fetch_html.gets + 1]
    /\ UNCHANGED fetch_frame

\* response = await self.client.get(...); raise_for_status passes;
\* return response.text
GetReturns ==
    /\ fetch_html.pc = "get"
    /\ fetch_html' = [fetch_html EXCEPT
                         !.pc = "returned",
                         !.gets = @ + 1,
                         !.responses = Append(@, OkResponse),
                         !.body = fetch_html.gets + 1]
    /\ UNCHANGED fetch_frame

\* except httpx.HTTPStatusError: a 429 or 503 is followed by a sleep, any other
\* status is re-raised
GetStatusError ==
    /\ fetch_html.pc = "get"
    /\ \E resp \in StatusResponses, jitter \in Jitters :
          fetch_html' =
             IF resp.status \in RetryStatuses
             THEN [fetch_html EXCEPT
                      !.pc = "sleep",
                      !.gets = @ + 1,
                      !.responses = Append(@, resp),
                      !.sleeps = Append(@, StatusDelay(resp, fetch_html.attempt, jitter))]
             ELSE [fetch_html EXCEPT
                      !.pc = "raised",
                      !.gets = @ + 1,
                      !.responses = Append(@, resp),
                      !.error = FetchError("status", fetch_html.gets + 1)]
    /\ UNCHANGED fetch_frame

\* a fetch_html that sleeps after every network error (C17 fails with it)
GetRequestErrorAlwaysSleeps ==
    /\ fetch_html.pc = "get"
    /\ \E jitter \in Jitters :
          fetch_html' = [fetch_html EXCEPT
                            !.pc = "sleep",
                            !.gets = @ + 1,
                            !.responses = Append(@, RequestErrorResponse),
                            !.sleeps = Append(@, Backoff(fetch_html.attempt, jitter))]
    /\ UNCHANGED fetch_frame

\* except httpx.RequestError: followed by a sleep before the last attempt,
\* re-raised at the last
GetRequestError ==
    /\ fetch_html.pc = "get"
    /\ \E jitter \in Jitters :
          fetch_html' =
             IF fetch_html.attempt < fetch_html.max_retries - 1
             THEN [fetch_html EXCEPT
                      !.pc = "sleep",
                      !.gets = @ + 1,
                      !.responses = Append(@, RequestErrorResponse),
                      !.sleeps = Append(@, Backoff(fetch_html.attempt, jitter))]
             ELSE [fetch_html EXCEPT
                      !.pc = "raised",
                      !.gets = @ + 1,
                      !.responses = Append(@, RequestErrorResponse),
                      !.error = FetchError("network", fetch_html.gets + 1)]
    /\ UNCHANGED fetch_frame

\* a loop that makes one attempt more than the budget (C23 fails with it)
SleepReturnsOnceMore ==
    /\ fetch_html.pc = "sleep"
    /\ fetch_html' =
          IF fetch_html.attempt + 1 < fetch_html.max_retries + 1
          THEN [fetch_html EXCEPT !.pc = "get", !.attempt = @ + 1]
          ELSE [fetch_html EXCEPT
                   !.pc = "raised",
                   !.attempt = @ + 1,
                   !.error = FetchError("all_failed", 0)]
    /\ UNCHANGED fetch_frame

\* await asyncio.sleep(delay) returns: the next attempt of the loop, or after
\* the last one raise httpx.RequestError("All ... attempts ... failed.")
SleepReturns ==
    /\ fetch_html.pc = "sleep"
    /\ fetch_html' =
          IF fetch_html.attempt + 1 < fetch_html.max_retries
          THEN [fetch_html EXCEPT !.pc = "get", !.attempt = @ + 1]
          ELSE [fetch_html EXCEPT
                   !.pc = "raised",
                   !.attempt = @ + 1,
                   !.error = FetchError("all_failed", 0)]
    /\ UNCHANGED fetch_frame

FetchNext ==
    \/ GetReturns
    \/ GetStatusError
    \/ GetRequestError
    \/ SleepReturns

FetchSpec == FetchInit /\ [][FetchNext]_vars
(* ------------------------------- claims ------------------------------- *)

\* the exceptions a fetch or a parse can raise in a task
ArticleErrors == FetchErrors \cup {ParseError}

\* number of positions of the sequence s that satisfy Test
Count(s, Test(_)) == Cardinality({k \in 1..Len(s) : Test(s[k])})

RECURSIVE SumTo(_, _)
\* f[1] + ... + f[n]
SumTo(f, n) == IF n = 0 THEN 0 ELSE SumTo(f, n - 1) + f[n]

\* the offers the pages of all tasks were parsed to, as one set
ParsedOffers == UNION {Range(parsed[i]) : i \in Tasks}

\* C1: Partial failure isolation.  A fetch or parse exception never leaves its
\* task and never ends the run: the run raises only when the reporter raised or
\* the caller cancelled it.  When the run
\* returns, the result is the ranking of the offers collected, it holds every
\* priced offer parsed by a task that did not fail as often as the tasks parsed
\* it, and for every article code and error exactly as many FETCHING/FAILURE
\* steps carry them as tasks of that article failed with that error.
C1_FailureIsolation ==
    /\ \A i \in Tasks : task_exc[i] \notin ArticleErrors
    /\ error \notin ArticleErrors
    /\ phase = "raised" => reporter_failures > 0 \/ cancelled
    /\ phase = "returned" =>
        /\ final_results = RankOffers(all_offers)
        /\ \A i \in Tasks : caught[i] # NoError => parsed[i] = <<>>
        /\ \A o \in ParsedOffers :
              o.price # None =>
                 Count(final_results, LAMBDA r : r = o)
                    = SumTo([i \in Tasks |-> Count(parsed[i], LAMBDA r : r = o)],
                            total_articles)
        /\ \A r \in Range(final_results) : r \in ParsedOffers /\ r.price # None
        /\ \A a \in Codes, e \in ArticleErrors :
              Count(steps, LAMBDA r : r = FetchingFailure(a, e))
                 = Cardinality({i \in Tasks : articles[i] = a /\ caught[i] = e})
        /\ Count(steps, LAMBDA r : r.status = "FAILURE")
              = Cardinality({i \in Tasks : caught[i] # NoError})

\* C1 witness: a run has returned offers although a fetch raised in one task and
\* a page failed to parse in another.
C1_Witness ==
    /\ phase = "returned"
    /\ final_results # <<>>
    /\ \E i \in Tasks : caught[i] \in FetchErrors
    /\ \E i \in Tasks : caught[i] = ParseError

\* C2: Bounded concurrency.  The tasks inside the semaphore with a fetch in
\* flight are never more than concurrency_limit, and the semaphore's value is
\* the number of free slots.
C2_BoundedConcurrency ==
    /\ Cardinality(Suspended) <= concurrency_limit
    /\ semaphore = concurrency_limit - Cardinality(Suspended)

\* C2 witness: the semaphore is full while a further task waits to enter.
C2_Witness ==
    /\ Cardinality(Suspended) = concurrency_limit
    /\ \E i \in Tasks : pc[i] = "new"
    /\ \E i \in Tasks : pc[i] = "done"

\* C3: Completion accounting.  No task counts itself twice, a task that ended
\* on any path other than being cancelled before it entered the semaphore has
\* counted itself once, completed_count is the sum of the tasks' increments,
\* and once gather has returned completed_count is the number of articles.
C3_CompletionAccounting ==
    /\ \A i \in Tasks : increments[i] <= 1
    /\ \A i \in Tasks :
          pc[i] = "done" /\ (task_exc[i] # CancelledError \/ fetch_calls[i] > 0)
             => increments[i] = 1
    /\ completed_count = SumTo(increments, total_articles)
    /\ phase \in {"closing", "returned"} => completed_count = total_articles

\* C3 witness: a run over a list with a duplicate has returned, one task having
\* succeeded and one having failed.
C3_Witness ==
    /\ phase = "returned"
    /\ \E i, j \in Tasks : i # j /\ articles[i] = articles[j]
    /\ \E i \in Tasks : caught[i] # NoError
    /\ \E i \in Tasks : parsed[i] # <<>>
    /\ completed_count = total_articles

\* round(100 * k / n) as Python rounds: to the nearest integer, a half to the
\* even one
RoundPct(k, n) ==
    LET q == (100 * k) \div n
        r == (100 * k) % n
    IN  IF 2 * r > n \/ (2 * r = n /\ q % 2 = 1) THEN q + 1 ELSE q

\* C4: Progress reaches 100.  Once every task of a run over a non-empty list
\* has completed, the last value passed to report_percentage is 100.
C4_ProgressReaches100 ==
    phase \in {"closing", "returned"} /\ total_articles > 0 =>
        percentages # <<>> /\ percentages[Len(percentages)] = 100

\* C5: Progress value.  In a run with proxies that is not cancelled and whose
\* reporter never raises, one percentage is reported for each task completion,
\* and the one reported after the k-th completion is round(100 * k / N).
C5_ProgressValue ==
    reporter_failures = 0 /\ ~cancelled /\ proxies # <<>> =>
        /\ Len(percentages) = completed_count
        /\ \A k \in 1..Len(percentages) : percentages[k] = RoundPct(k, total_articles)

\* C6: Pool teardown ordering.  close_all is called at most once and only when
\* every task has completed, no fetch_html is called once it has started,
\* FILTERING/IN_PROGRESS is reported only after it has returned, and a run that
\* returns has called it once and has closed every session of the pool.
C6_TeardownOrdering ==
    /\ close_calls <= 1
    /\ close_calls > 0 => \A i \in Tasks : pc[i] = "done"
    /\ ~late_fetch
    /\ FilteringInProgress \in Range(steps) => close_calls = 1 /\ to_close = <<>>
    /\ phase = "returned" => close_calls = 1 /\ closed = Range(sessions)

\* C6 witness: a run that created two sessions has returned with both closed.
C6_Witness ==
    /\ phase = "returned"
    /\ Len(sessions) = 2
    /\ closed = Range(sessions)
    /\ \A i \in Tasks : fetch_calls[i] > 0

\* C7: Guaranteed cleanup.  When the run has ended early with an exception or a
\* cancellation and sessions were created, close_all has been called once and
\* no session is left open.
C7_GuaranteedCleanup ==
    phase = "raised" /\ sessions # <<>> =>
        close_calls = 1 /\ Range(sessions) \subseteq closed

\* C8: No-proxy degeneracy.  With no proxies, acquire returns None, creates no
\* session and raises nothing, no fetch is attempted, no FAILURE step is
\* reported, no article fails, the run raises only when the reporter raised or
\* the caller cancelled it, and a run that returns returns no offers.
C8_NoProxyDegeneracy ==
    proxies = <<>> =>
        /\ PoolAcquire.session = NoSession
        /\ sessions = <<>>
        /\ \A i \in Tasks : session[i] = NoSession /\ fetch_calls[i] = 0
        /\ \A i \in Tasks : caught[i] = NoError /\ task_exc[i] \in {NoError, CancelledError}
        /\ \A k \in 1..Len(steps) : steps[k].status # "FAILURE"
        /\ all_offers = <<>>
        /\ phase = "raised" => reporter_failures > 0 \/ cancelled
        /\ phase = "returned" => final_results = <<>> /\ completed_count = total_articles

\* C8 witness: a run over several articles has returned without proxies.
C8_Witness ==
    /\ phase = "returned"
    /\ proxies = <<>>
    /\ total_articles >= 2
    /\ final_results = <<>>

\* a step report that ends the FETCHING phase
FetchingTerminal(r) == r.step = "FETCHING" /\ r.status \in {"SUCCESS", "FAILURE"}

\* C9: Run state machine, as the spec states it.  A run that returns after a
\* page was parsed to offers has reported FETCHING/IN_PROGRESS, then a terminal
\* FETCHING status, then FILTERING/IN_PROGRESS, then FILTERING/SUCCESS.
C9_RunStateMachine ==
    phase = "returned" /\ (\E i \in Tasks : parsed[i] # <<>>) =>
        \E a, b, c, d \in 1..Len(steps) :
            /\ a < b /\ b < c /\ c < d
            /\ steps[a] = FetchingInProgress
            /\ FetchingTerminal(steps[b])
            /\ steps[c] = FilteringInProgress
            /\ steps[d] = FilteringSuccess

\* C9, amended: FETCHING/SUCCESS is never reported.  The reports begin with
\* FETCHING/IN_PROGRESS; FETCHING/FAILURE reports follow, one per task that has
\* failed; FILTERING/IN_PROGRESS is reported only when every task has completed
\* and only after all of these; a run that returns has reported, in this order,
\* FETCHING/IN_PROGRESS, one FETCHING/FAILURE per failed task,
\* FILTERING/IN_PROGRESS and FILTERING/SUCCESS, and nothing else.
C9_RunStateMachineAmended ==
    LET failures == Cardinality({i \in Tasks : caught[i] # NoError})
        n == Len(steps)
    IN  /\ \A k \in 1..n : ~(steps[k].step = "FETCHING" /\ steps[k].status = "SUCCESS")
        /\ n > 0 => steps[1] = FetchingInProgress
        /\ \A k \in 1..n :
              steps[k] = FilteringInProgress =>
                 /\ \A i \in Tasks : pc[i] = "done"
                 /\ k = failures + 2
                 /\ \A j \in 2..(k - 1) : FetchingTerminal(steps[j])
        /\ phase = "returned" =>
              /\ n = failures + 3
              /\ steps[n - 1] = FilteringInProgress
              /\ steps[n] = FilteringSuccess

\* C9 witness: a run has returned with one task failed and one succeeded.
C9_Witness ==
    /\ phase = "returned"
    /\ Len(steps) = 4
    /\ steps[2].status = "FAILURE"
    /\ \E i \in Tasks : parsed[i] # <<>>

\* C10: Step reports of a failure-free run.  While no article's processing has
\* raised, the reporter has received a prefix of FETCHING/IN_PROGRESS,
\* FILTERING/IN_PROGRESS, FILTERING/SUCCESS, and all three once the run has
\* returned.
C10_FailureFreeSteps ==
    LET expected == <<FetchingInProgress, FilteringInProgress, FilteringSuccess>>
    IN  (\A i \in Tasks : caught[i] = NoError) =>
            /\ Len(steps) <= Len(expected)
            /\ steps = SubSeq(expected, 1, Len(steps))
            /\ phase = "returned" => steps = expected

\* C10 witness: a failure-free run over MaxArticles articles, each fetched and
\* parsed to offers, has returned.
C10_Witness ==
    /\ phase = "returned"
    /\ total_articles = MaxArticles
    /\ \A i \in Tasks : caught[i] = NoError /\ parsed[i] # <<>> /\ fetch_calls[i] > 0

\* the priced offers among the offers collected
Priced == SelectSeq(all_offers, LAMBDA o : o.price # None)

\* C11: Price is required.  No ranked offer has price None; a priced offer,
\* price 0 included, stands in the result as often as it was collected unless
\* its article has more than 10 priced offers, and never more often.
C11_PriceRequired ==
    phase = "ranked" =>
        /\ \A k \in 1..Len(final_results) : final_results[k].price # None
        /\ \A o \in Range(Priced) :
              /\ Count(final_results, LAMBDA r : r = o) <= Count(Priced, LAMBDA r : r = o)
              /\ Count(Priced, LAMBDA r : r.a = o.a) <= TopN =>
                    Count(final_results, LAMBDA r : r = o) = Count(Priced, LAMBDA r : r = o)
        /\ \A r \in Range(final_results) : r \in Range(Priced)

\* C11 witness: an offer of price 0 is ranked while an unpriced one is dropped.
C11_Witness ==
    /\ phase = "ranked"
    /\ \E r \in Range(final_results) : r.price = Some(0)
    /\ \E o \in Range(all_offers) : o.price = None

\* C12: Per-article cap.  For every article the result holds min(10, n) of its
\* n priced offers, they are the first of the article's sorted group in the
\* group's order, and no priced offer left out is cheaper than one kept.
C12_PerArticleCap ==
    phase = "ranked" =>
        \A a \in Codes :
            LET group == SelectSeq(SortOffers(Priced), LAMBDA o : o.a = a)
                kept  == SelectSeq(final_results, LAMBDA o : o.a = a)
                left(p) == Count(group, LAMBDA o : o.price[1] = p)
                              > Count(kept, LAMBDA o : o.price[1] = p)
            IN  /\ Len(kept) = Min(TopN, Count(Priced, LAMBDA o : o.a = a))
                /\ kept = SubSeq(group, 1, Len(kept))
                /\ \A o \in Range(group), r \in Range(kept) :
                      left(o.price[1]) => r.price[1] <= o.price[1]

\* C12 witness: an article with more than 10 priced offers, the cheapest of them
\* collected last, is ranked with 10 offers.
C12_Witness ==
    /\ phase = "ranked"
    /\ Count(Priced, LAMBDA o : o.a = CodeList[1]) > TopN
    /\ Count(final_results, LAMBDA o : o.a = CodeList[1]) = TopN
    /\ final_results[1].price = Some(0)
    /\ all_offers[Len(all_offers)].price = Some(0)

\* C13: Ranking order.  Of two ranked offers of one article with equal price
\* and quantity and both deliveries present, the one with the smaller delivery
\* comes first.
C13_RankingOrder ==
    phase = "ranked" =>
        \A i, j \in 1..Len(final_results) :
            LET x == final_results[i]
                y == final_results[j]
            IN  /\ i < j
                /\ x.a = y.a /\ x.price = y.price /\ x.quantity = y.quantity
                /\ x.delivery # None /\ y.delivery # None
                => x.delivery[1] <= y.delivery[1]

\* the offers collected in the opposite order
Reverse(s) == [j \in 1..Len(s) |-> s[Len(s) + 1 - j]]

\* C14: Order independence.  Offers with every field present, collected in the
\* opposite order, are ranked to the same list.
C14_OrderIndependence ==
    /\ phase = "ranked"
    /\ \A o \in Range(all_offers) : o.quantity # None /\ o.delivery \notin {None, Some(0)}
    => RankOffers(Reverse(all_offers)) = final_results

(* ---------------------- parse_stparts on its own ---------------------- *)
(* One call of parse_stparts(tree, source_url, include_analogs).  The URL  *)
(* is what requested_article sees of it: the segments of its path after   *)
(* strip("/").split("/") and the value of its pcode query parameter.  The  *)
(* tree has the results table or not, the rows of the table, and whether  *)
(* a row makes the parser raise.                                          *)

\* segments of a path; "" is the one segment of the empty path
Segments == {"", "search", "products", CodeList[1]}

\* longest path of a URL
MaxSegments == 3

PathParts == SeqsUpTo(Segments, MaxSegments) \ {<<>>}

SourceUrls ==
    {[path_parts |-> parts, pcode |-> q] :
        parts \in PathParts, q \in {None, Some(CodeList[2])}}

Trees ==
    {[table |-> t, rows |-> rs, bad |-> b] :
        t \in BOOLEAN, rs \in {<<>>, SummaryRows}, b \in BOOLEAN}

\* requested_article on the parts of a URL: the third segment of a path that
\* starts with search, else the pcode of a path with a search segment, else
\* ValueError
requested_article(url) ==
    IF "search" \in Range(url.path_parts)
    THEN IF Len(url.path_parts) > 2 /\ url.path_parts[1] = "search"
         THEN url.path_parts[3]
         ELSE IF url.pcode # None THEN url.pcode[1] ELSE ValueError
    ELSE ValueError

\* how a call ends: it returns results or raises error
Returned(results) == [pc |-> "returned", results |-> results, error |-> NoError]

Raised(e) == [pc |-> "raised", results |-> <<>>, error |-> e]

\* a parse_stparts without the try around requested_article (C21 fails with it)
parse_stparts_unguarded(source_url, tree) ==
    IF requested_article(source_url) = ValueError THEN Raised(ValueError)
    ELSE IF ~tree.table THEN Returned(<<>>)
    ELSE IF tree.bad THEN Raised(ParseError)
    ELSE Returned([j \in 1..Len(tree.rows) |->
                     [a        |-> requested_article(source_url),
                      price    |-> tree.rows[j].price,
                      quantity |-> tree.rows[j].quantity,
                      delivery |-> tree.rows[j].delivery,
                      provider |-> tree.rows[j].provider]])

\* parse_stparts: [] when requested_article raises ValueError, [] without the
\* results table, else one offer per row carrying the URL's article
parse_stparts(source_url, tree) ==
    IF requested_article(source_url) = ValueError THEN Returned(<<>>)
    ELSE IF ~tree.table THEN Returned(<<>>)
    ELSE IF tree.bad THEN Raised(ParseError)
    ELSE Returned([j \in 1..Len(tree.rows) |->
                     [a        |-> requested_article(source_url),
                      price    |-> tree.rows[j].price,
                      quantity |-> tree.rows[j].quantity,
                      delivery |-> tree.rows[j].delivery,
                      provider |-> tree.rows[j].provider]])

\* the variables parse_stparts leaves alone
parse_frame ==
    <<input_vars, run_vars, cancelled, pool_vars, close_vars, semaphore, lock,
      count_vars, all_offers, pc, session, parsable_url, task_exc, report_vars,
      percentages, final_results, fetch_vars, parsed, caught, html, fetch_html,
      pivot_call>>

ParseInit ==
    /\ NoRun
    /\ phase = "init"
    /\ all_offers = <<>>
    /\ final_results = <<>>
    /\ fetch_html = NoCall
    /\ pivot_call = NoCall
    /\ \E url \in SourceUrls, tree \in Trees :
          parse_call = [pc |-> "called", source_url |-> url, tree |-> tree,
                        outcome |-> NoCall]

ParseCall ==
    /\ parse_call.pc = "called"
    /\ parse_call' = [parse_call EXCEPT
                         !.pc = "done",
                         !.outcome = parse_stparts(parse_call.source_url, parse_call.tree)]
    /\ UNCHANGED parse_frame

ParseSpec == ParseInit /\ [][ParseCall]_vars

(* ---------------- pivot_offers_for_export on its own ------------------ *)
(* One call of pivot_offers_for_export(offers).  An offer has its brand b  *)
(* (None when the row had none), its article a, price, quantity and        *)
(* provider.  The frame returned is the sequence of its rows, each with    *)
(* its brand, its article and its numbered offer column groups.            *)

\* group.head(10): the offer column groups of a row
HeadRows == 10

BrandList == <<"b1", "b2">>

PivotOfferSpace ==
    [b        : {None} \cup {Some(BrandList[k]) : k \in 1..Len(BrandList)},
     a        : Codes,
     price    : {None, Some(5), Some(7)},
     quantity : {None, Some(3)},
     provider : {"w1"}]

\* n offers of one brand and article with the prices n, n - 1, ..., 1
PivotLadder(n) ==
    [j \in 1..n |->
        [b |-> Some(BrandList[1]), a |-> CodeList[1], price |-> Some(n + 1 - j),
         quantity |-> Some(3), provider |-> "w1"]]

PivotOfferLists ==
    SeqsUpTo(PivotOfferSpace, MaxOffers)
    \cup {PivotLadder(n) \o s : n \in (HeadRows - 1)..(HeadRows + MaxExtra),
                                s \in SeqsUpTo(PivotOfferSpace, 1)}

\* sort_values(by=["price", "quantity"], ascending=[True, False]): x goes
\* before y; a missing value goes last in its column
PivotBefore(x, y) ==
    \/ x.price # None /\ (y.price = None \/ x.price[1] < y.price[1])
    \/ /\ x.price = y.price
       /\ x.quantity # None
       /\ (y.quantity = None \/ x.quantity[1] > y.quantity[1])

RECURSIVE SortValues(_)
SortValues(group) ==
    IF group = <<>> THEN <<>>
    ELSE LET n      == Len(group)
             o      == group[n]
             front  == SortValues(SubSeq(group, 1, n - 1))
             before == SelectSeq(front, LAMBDA x : ~PivotBefore(o, x))
             after  == SelectSeq(front, LAMBDA x : PivotBefore(o, x))
         IN  before \o <<o>> \o after

\* groupby(["b", "a"]): the keys of the groups in ascending order; an offer
\* whose brand is missing belongs to no group
GroupKeys(offers) ==
    LET all == [k \in 1..(Len(BrandList) * Len(CodeList)) |->
                   <<BrandList[((k - 1) \div Len(CodeList)) + 1],
                     CodeList[((k - 1) % Len(CodeList)) + 1]>>]
    IN  SelectSeq(all, LAMBDA key :
            \E j \in 1..Len(offers) : offers[j].b = Some(key[1]) /\ offers[j].a = key[2])

\* the row of one group: its first 10 offers in sorted order, numbered from 1
WideRow(key, offers) ==
    LET group  == SelectSeq(offers, LAMBDA o : o.b = Some(key[1]) /\ o.a = key[2])
        sorted == SortValues(group)
    IN  [brand   |-> key[1],
         article |-> key[2],
         offers  |-> [i \in 1..Min(Len(sorted), HeadRows) |->
                         [price    |-> sorted[i].price,
                          supplier |-> sorted[i].provider,
                          quantity |-> sorted[i].quantity]]]

pivot_offers_for_export(offers) ==
    IF offers = <<>> THEN <<>>
    ELSE LET keys == GroupKeys(offers)
         IN  [g \in 1..Len(keys) |-> WideRow(keys[g], offers)]

\* the variables pivot_offers_for_export leaves alone
pivot_frame ==
    <<input_vars, run_vars, cancelled, pool_vars, close_vars, semaphore, lock,
      count_vars, all_offers, pc, session, parsable_url, task_exc, report_vars,
      percentages, final_results, fetch_vars, parsed, caught, html, fetch_html,
      parse_call>>

PivotInit ==
    /\ NoRun
    /\ phase = "init"
    /\ all_offers = <<>>
    /\ final_results = <<>>
    /\ fetch_html = NoCall
    /\ parse_call = NoCall
    /\ \E offers \in PivotOfferLists :
          pivot_call = [pc |-> "called", offers |-> offers, df_wide |-> <<>>]

PivotCall ==
    /\ pivot_call.pc = "called"
    /\ pivot_call' = [pivot_call EXCEPT
                         !.pc = "done",
                         !.df_wide = pivot_offers_for_export(pivot_call.offers)]
    /\ UNCHANGED pivot_frame

PivotSpec == PivotInit /\ [][PivotCall]_vars

(* ------------------------- fetch_html claims -------------------------- *)

\* the responses of the call so far
Responses == fetch_html.responses

\* a failure the claims call retryable: a 429, a 503 or a network error
RetryableFailure(resp) ==
    \/ resp.kind = "network"
    \/ resp.kind = "status" /\ resp.status \in {429, 503}

\* an error status other than 429 and 503
PermanentStatus(resp) == resp.kind = "status" /\ resp.status \notin {429, 503}

\* C15: an error status other than 429 or 503 ends fetch_html with that HTTP
\* status error at once: the response is the last one, no sleep follows it and
\* no further GET is made, whatever the attempt number; every status that was
\* followed by a sleep or another GET is a 429 or a 503.
C15_PermanentNotRetried ==
    \A k \in 1..Len(Responses) :
        /\ PermanentStatus(Responses[k]) =>
              /\ k = Len(Responses)
              /\ fetch_html.pc = "raised"
              /\ fetch_html.error = FetchError("status", k)
              /\ fetch_html.gets = k
              /\ Len(fetch_html.sleeps) = k - 1
        /\ ( /\ Responses[k].kind = "status"
             /\ k < Len(Responses) \/ fetch_html.pc = "sleep" ) =>
              Responses[k].status \in {429, 503}

\* a 404 at the third attempt, after a 429 and a network error
C15_Witness ==
    /\ Len(Responses) = 3
    /\ Responses[1].status = 429
    /\ Responses[2].kind = "network"
    /\ Responses[3].status = 404
    /\ fetch_html.pc = "raised"

\* C16: when the first k responses (0 <= k < budget) are retryable failures
\* and response k+1 is successful, fetch_html returns the body of response k+1
\* after exactly k+1 GETs and exactly k sleeps, and does nothing afterwards.
C16_RetryThenSuccess ==
    \A n \in 1..Len(Responses) :
        Responses[n].kind = "ok" =>
            /\ n = Len(Responses)
            /\ n <= fetch_html.max_retries
            /\ \A k \in 1..(n - 1) : RetryableFailure(Responses[k])
            /\ fetch_html.pc = "returned"
            /\ fetch_html.body = n
            /\ fetch_html.gets = n
            /\ Len(fetch_html.sleeps) = n - 1

\* three 503s and then a success under a budget of 4: three sleeps
C16_Witness ==
    /\ fetch_html.max_retries = 4
    /\ Len(Responses) = 4
    /\ \A k \in 1..3 : Responses[k].status = 503
    /\ Responses[4].kind = "ok"
    /\ fetch_html.pc = "returned"
    /\ Len(fetch_html.sleeps) = 3

\* C17: when every attempt up to the budget ends in a network error,
\* fetch_html re-raises the error of the last attempt after exactly budget
\* GETs.
C17_NetworkExhaustion ==
    ( /\ Len(Responses) = fetch_html.max_retries
      /\ \A k \in 1..Len(Responses) : Responses[k].kind = "network" ) =>
        /\ fetch_html.pc = "raised"
        /\ fetch_html.error = FetchError("network", fetch_html.max_retries)
        /\ fetch_html.gets = fetch_html.max_retries

\* the default budget of three attempts, each a network error
C17_Witness ==
    /\ fetch_html.max_retries = max_retries
    /\ Len(Responses) = max_retries
    /\ \A k \in 1..max_retries : Responses[k].kind = "network"
    /\ fetch_html.pc = "raised"
    /\ Len(fetch_html.sleeps) = max_retries - 1

\* C18: whenever fetch_html uses up its whole budget on retryable failures,
\* it ends with the dedicated "all attempts failed" error and not with the
\* error of an attempt.
C18_AllAttemptsFailed ==
    ( /\ fetch_html.pc = "raised"
      /\ Len(Responses) = fetch_html.max_retries
      /\ \A k \in 1..Len(Responses) : RetryableFailure(Responses[k]) ) =>
        fetch_html.error = FetchError("all_failed", 0)

(* ----------------------------- pool claims ---------------------------- *)

\* the tasks that have called acquire on a pool with proxies: each goes on to
\* its first fetch_html.  Task i makes call number i - 1.
Acquired == {i \in Tasks : fetch_calls[i] >= 1}

\* C19: with n >= 1 proxies the k-th call of acquire (k = 0, 1, ...) returns
\* the session of the address:port of proxy k mod n, and over any n
\* consecutive calls every configured proxy is handed out exactly as often as
\* it is configured.
C19_RoundRobin ==
    proxies # <<>> =>
        LET n == Len(proxies)
        IN  /\ \A i \in Acquired : \A j \in 1..(i - 1) : j \in Acquired
            /\ \A i \in Acquired : session[i] = proxies[((i - 1) % n) + 1]
            /\ \A first \in Acquired :
                  (first + n - 1) \in Acquired =>
                     \A key \in Range(proxies) :
                        Cardinality({i \in first..(first + n - 1) : session[i] = key})
                           = Cardinality({j \in 1..n : proxies[j] = key})

\* three calls on two different proxies: the third wraps round to the first
C19_Witness ==
    /\ Len(proxies) = 2
    /\ proxies[1] # proxies[2]
    /\ Acquired = 1..3
    /\ session[1] = proxies[1]
    /\ session[2] = proxies[2]
    /\ session[3] = proxies[1]

(* --------------------------- redirect claims -------------------------- *)

\* the offers the rows of a page stand for, whatever article they carry
RowsOf(offers) ==
    [j \in 1..Len(offers) |->
        [price    |-> offers[j].price,
         quantity |-> offers[j].quantity,
         delivery |-> offers[j].delivery,
         provider |-> offers[j].provider]]

\* the tasks that ended without an exception after following the anchor
Redirected ==
    {i \in Tasks : /\ pc[i] = "done"
                   /\ task_exc[i] = NoError
                   /\ caught[i] = NoError
                   /\ fetch_calls[i] = 2}

\* C20: when the first page has the 'show all options' anchor the article is
\* fetched exactly twice and its offers are the offers of the rows of the
\* second page; no article is fetched more than twice.
C20_RedirectFollowing ==
    /\ \A i \in Tasks : fetch_calls[i] <= 2
    /\ \A i \in Redirected : RowsOf(parsed[i]) = html[i]

(* --------------------- fetch_html budget and delays ------------------- *)

\* C23: one call of fetch_html issues at most max attempts GETs, whatever the
\* responses; status failures and network errors draw on the same budget.
C23_AttemptBudget ==
    /\ fetch_html.gets <= fetch_html.max_retries
    /\ fetch_html.gets = Len(Responses)

\* the default budget used up by a 503, a network error and a 429
C23_Witness ==
    /\ fetch_html.max_retries = max_retries
    /\ fetch_html.gets = max_retries
    /\ Responses[1].status = 503
    /\ Responses[2].kind = "network"
    /\ Responses[3].status = 429
    /\ fetch_html.pc = "raised"

\* d = min(max_delay_sec, base_delay_sec * 2^attempt + jitter) for some jitter
\* in [0, 1)
IsCappedBackoff(d, attempt) ==
    LET cap    == fetch_html.max_delay_ms
        lowest == base_delay_ms * Pow2(attempt)
    IN  /\ d <= cap
        /\ d < cap => lowest <= d /\ d < lowest + jitter_ms
        /\ d = cap => lowest + jitter_ms > cap

\* a 429 whose Retry-After header float() accepts
NumericRetryAfter(resp) ==
    /\ resp.kind = "status"
    /\ resp.status = 429
    /\ resp.retry_after # None
    /\ resp.retry_after[1].numeric

\* C24: every delay slept before a retry equals min(max_delay_sec,
\* base_delay_sec * 2^attempt + jitter), attempt being the 0-based index of the
\* failed attempt, and so never exceeds max_delay_sec, for every retryable
\* failure.
C24_BackoffCapped ==
    \A k \in 1..Len(fetch_html.sleeps) :
        /\ IsCappedBackoff(fetch_html.sleeps[k], k - 1)
        /\ fetch_html.sleeps[k] <= fetch_html.max_delay_ms

\* C24 amended: the delay slept after a network error, a 503 or a 429 without
\* a numeric Retry-After equals the capped backoff and never exceeds
\* max_delay_sec; after a 429 with a numeric Retry-After of r it exceeds
\* max_delay_sec only when r does, and then equals r.
C24_BackoffCappedAmended ==
    \A k \in 1..Len(fetch_html.sleeps) :
        IF NumericRetryAfter(Responses[k])
        THEN \/ IsCappedBackoff(fetch_html.sleeps[k], k - 1)
             \/ /\ fetch_html.sleeps[k] = Responses[k].retry_after[1].ms
                /\ fetch_html.sleeps[k] > base_delay_ms * Pow2(k - 1)
        ELSE /\ IsCappedBackoff(fetch_html.sleeps[k], k - 1)
             /\ fetch_html.sleeps[k] <= fetch_html.max_delay_ms

\* three 503s under a max_delay_sec of 3: the third delay, 4 s and more
\* uncapped, is 3 s
C24_Witness ==
    /\ fetch_html.max_delay_ms = low_max_delay_ms
    /\ Len(fetch_html.sleeps) = 3
    /\ \A k \in 1..3 : Responses[k].status = 503
    /\ fetch_html.sleeps[3] = low_max_delay_ms
    /\ fetch_html.sleeps[2] < low_max_delay_ms

\* d is the larger of a capped backoff of the attempt and r
IsFlooredBackoff(d, attempt, r) ==
    /\ d >= r
    /\ \/ IsCappedBackoff(d, attempt)
       \/ d = r /\ Min(fetch_html.max_delay_ms, base_delay_ms * Pow2(attempt)) <= r

C30_NoSleepAfterLastAttempt ==
    ( /\ fetch_html.pc = "raised"
      /\ Len(Responses) = fetch_html.max_retries
      /\ \A k \in 1..Len(Responses) : RetryableFailure(Responses[k]) ) =>
        Len(fetch_html.sleeps) = fetch_html.max_retries - 1

(* -------------------------- session memoisation ----------------------- *)

\* the pool holds at most one session per address:port key
OneSessionPerKey ==
    \A j, k \in 1..Len(sessions) : sessions[j] = sessions[k] => j = k

\* a step changes the session map only when a task's acquire stores the
\* session of a key that had none, and an acquire for a key that has a session
\* returns it and stores nothing
OnlyAcquireStores ==
    /\ sessions' # sessions =>
          \E i \in Tasks :
              /\ pc[i] = "new"
              /\ pc'[i] # "new"
              /\ session'[i] \notin Range(sessions)
              /\ sessions' = Append(sessions, session'[i])
    /\ \A i \in Tasks :
          ( /\ pc[i] = "new"
            /\ pc'[i] # "new"
            /\ session'[i] \in Range(sessions) ) =>
              sessions' = sessions

\* C26: in every reachable state the pool holds at most one session per
\* address:port key; an acquire for a key already present returns the
\* existing session and creates none; the session map is changed only by
\* acquire, under every interleaving of the tasks.
C26_SessionMemoisation == [](OneSessionPerKey) /\ [][OnlyAcquireStores]_vars

\* two configured proxies with the same address:port, both acquired while the
\* first task is still fetching: one session
C26_Witness ==
    /\ Len(proxies) = 2
    /\ proxies[1] = proxies[2]
    /\ {1, 2} \subseteq Acquired
    /\ pc[1] \in {"fetch1", "fetch2"}
    /\ session[1] = session[2]
    /\ Len(sessions) = 1

(* --------------------------- monotone progress ------------------------ *)

\* C27: the values passed to report_percentage, in call order across all
\* tasks of a run, never decrease under any interleaving, and each lies in
\* 0..100.
C27_MonotoneProgress ==
    \A k \in 1..Len(percentages) :
        /\ percentages[k] \in 0..100
        /\ k > 1 => percentages[k - 1] <= percentages[k]

\* three articles fetched two at a time: three rising values
C27_Witness ==
    /\ total_articles = 3
    /\ concurrency_limit = 2
    /\ Len(percentages) = 3
    /\ percentages[1] < percentages[2]
    /\ percentages[2] < percentages[3]

(* ------------------------- failure of a fetch ------------------------- *)

\* the tasks one of whose fetches raised
FetchFailed == {i \in Tasks : caught[i] \in FetchErrors}

\* a task whose fetch raised has ended after one or two fetches and holds no
\* offer; the result holds the offers of the tasks and no others; its failure
\* is among the steps when no call of the reporter raised
FailedFetchState ==
    /\ \A i \in FetchFailed :
          /\ pc[i] = "done"
          /\ fetch_calls[i] \in {1, 2}
          /\ parsed[i] = <<>>
          /\ reporter_failures = 0 =>
                \E k \in 1..Len(steps) : steps[k] = FetchingFailure(articles[i], caught[i])
    /\ Len(all_offers) = SumTo([i \in Tasks |-> Len(parsed[i])], total_articles)

\* the step in which a fetch of a task raises, and every later step, makes no
\* fetch for the task
NoFetchAfterFailure ==
    \A i \in Tasks : caught'[i] \in FetchErrors => fetch_calls'[i] = fetch_calls[i]

\* C28: when the first fetch or the redirect fetch of an article raises, no
\* further fetch is made for the article, it is reported as FETCHING/FAILURE
\* and it contributes no offer, also when its first page had offer rows.
C28_FetchFailureFailsArticle == [](FailedFetchState) /\ [][NoFetchAfterFailure]_vars

\* a run has returned in which the redirect fetch of an article raised after
\* a first page with rows
C28_Witness ==
    /\ phase = "returned"
    /\ \E i \in FetchFailed :
          /\ fetch_calls[i] = 2
          /\ html[i] # <<>>
          /\ parsed[i] = <<>>
          /\ \E k \in 1..Len(steps) : steps[k] = FetchingFailure(articles[i], caught[i])

(* -------------------------- articles of offers ------------------------ *)

\* C29: every offer a task parsed, and so every offer of the result, carries
\* the input article code of the task that fetched it, also when its page was
\* reached through the 'show all options' anchor.
C29_ArticlesFromInput ==
    \A i \in Tasks : \A o \in Range(parsed[i]) : o.a = articles[i]

(* ------------------------- parse_stparts claims ----------------------- *)

\* the shapes of a URL the claims call recognised: a pcode query parameter on
\* a path with a search segment, or a third segment after a leading search
RecognisedShape(url) ==
    \/ url.pcode # None /\ \E k \in 1..Len(url.path_parts) : url.path_parts[k] = "search"
    \/ Len(url.path_parts) >= 3 /\ url.path_parts[1] = "search"

\* C21: parse_stparts returns an empty list and raises nothing when the source
\* URL has neither recognised shape or the results table is absent;
\* requested_article signals exactly the unrecognised shapes with ValueError.
C21_MalformedPageAbsorbed ==
    parse_call.pc = "done" =>
        LET url == parse_call.source_url
        IN  /\ (~RecognisedShape(url) \/ ~parse_call.tree.table) =>
                  parse_call.outcome = Returned(<<>>)
            /\ requested_article(url) = ValueError <=> ~RecognisedShape(url)

\* a page with the table and rows fetched from /products/<code>: no offers
C21_Witness ==
    /\ parse_call.pc = "done"
    /\ parse_call.source_url.path_parts = <<"products", CodeList[1]>>
    /\ parse_call.tree.table
    /\ parse_call.tree.rows # <<>>
    /\ parse_call.outcome = Returned(<<>>)

(* ------------------ pivot_offers_for_export claims -------------------- *)

\* the prices of the offer column groups of a row never fall from one group
\* to the next; missing prices come last
AscendingPrices(row) ==
    \A i \in 1..(Len(row.offers) - 1) :
        \/ row.offers[i + 1].price = None
        \/ /\ row.offers[i].price # None
           /\ row.offers[i].price[1] <= row.offers[i + 1].price[1]

\* C22: the frame has exactly one row per distinct article code of the input,
\* whatever the brands of the offers, and each row has at most 10 offer column
\* groups, numbered from 1, in ascending order of price.
C22_PivotShape ==
    pivot_call.pc = "done" =>
        LET df == pivot_call.df_wide
        IN  /\ \A j \in 1..Len(pivot_call.offers) :
                  Cardinality({g \in 1..Len(df) : df[g].article = pivot_call.offers[j].a}) = 1
            /\ \A g \in 1..Len(df) :
                  /\ \E j \in 1..Len(pivot_call.offers) : pivot_call.offers[j].a = df[g].article
                  /\ Len(df[g].offers) \in 1..HeadRows
                  /\ AscendingPrices(df[g])

====
